---- MODULE Spec2Model ----
(***************************************************************************)
(* A model of the geoh5 object graph: the entity constructor and the       *)
(* parent/child tree (geoh5io/shared/entity.py), the Data base class       *)
(* (geoh5py/data/data.py) and the GeoImage object                          *)
(* (geoh5py/objects/geo_image.py).  The Workspace class is not part of the *)
(* sources; its operations are modelled from the specification and are    *)
(* marked as such where they are defined.                                  *)
(***************************************************************************)
EXTENDS Integers, Sequences, FiniteSets, TLC

VARIABLES
    entities,   \* the Entity objects of the workspace, in registration order
    tree,       \* workspace.tree: uid -> [parent, children]
    nset,       \* the number of set_parent calls made so far
    data,       \* a Data entity: _association, _on_file, _values, _entity_type
    store,      \* what the workspace's store holds for the Data entity
    geo,        \* a GeoImage: _vertices, _cells, on_file
    geo_store,  \* what the workspace's store holds for the GeoImage
    children,   \* the children of the GeoImage
    h5,         \* the file: the entities written and flushed, and a reopening
    em,         \* an EM survey, its children, property groups and metadata
    gt,         \* a ground TEM receivers/transmitters pair and its copy
    md,         \* the metadata dictionaries of two BaseEMSurvey objects
    last,       \* the last call made: its operation, arguments and outcome
    prev        \* the call made before it: its operation and outcome

vars == <<entities, tree, nset, data, store, geo, geo_store, children, h5, em, gt, md,
          last, prev>>

treeVars == <<entities, tree, nset>>
dataVars == <<data, store>>
geoVars == <<geo, geo_store, children>>
fileVars == <<h5>>
surveyVars == <<em, md>>
copyVars == <<gt>>

(***************************************************************************)
(* Optional values: None is the empty tuple, Some(x) the one-element tuple *)
(***************************************************************************)
None == <<>>
Some(x) == <<x>>

InSeq(x, s) == \E k \in 1..Len(s) : s[k] = x

(***************************************************************************)
(* Bounds of the model                                                     *)
(***************************************************************************)
MaxUid == 4
MaxEntities == 4
MaxSetParent == 2
MaxLen == 4
MaxVal == 2
MaxPix == 2
MaxVerts == 3
MaxLoopId == 2

\* The longest list of channels of a survey
MaxChannels == 2

\* uuid.UUID(int=0), the value Entity.__init__ refuses
NilUid == 0

UIDs == NilUid..MaxUid
Names == {"Workspace", "Group"}

\* The uid argument of a constructor: None, or a UUID
UidArgs == {[kind |-> "none"]} \cup {[kind |-> "uuid", uid |-> u] : u \in UIDs}

(***************************************************************************)
(* geoh5io/shared/entity.py                                                *)
(***************************************************************************)
UsedUids == {entities[i].uid : i \in 1..Len(entities)}

\* uuid.uuid4(): 122 random bits with the version bits set, hence never the
\* nil UUID; the draw is taken among the values no entity carries.
Uuid4Values == {u \in UIDs : u # NilUid /\ u \notin UsedUids}

fix_up_name(name) == name

\* Entity.__init__ without the assertion on the supplied uid
EntityInitNoAssert(name, uid, generated) ==
    [ok |-> TRUE,
     entity |-> [uid |-> IF uid.kind = "uuid" THEN uid.uid ELSE generated,
                 name |-> fix_up_name(name)]]

\* Entity.__init__(name, uid): the constructed object, or the AssertionError
EntityInit(name, uid, generated) ==
    IF uid.kind = "uuid"
    THEN IF uid.uid = NilUid
         THEN [ok |-> FALSE, err |-> "AssertionError"]
         ELSE [ok |-> TRUE,
               entity |-> [uid |-> uid.uid, name |-> fix_up_name(name)]]
    ELSE [ok |-> TRUE,
          entity |-> [uid |-> generated, name |-> fix_up_name(name)]]

\* Workspace.get_entity(name): the matching entities, in registration order
GetEntityByName(name) ==
    SelectSeq([i \in 1..Len(entities) |-> i], LAMBDA i : entities[i].name = name)

\* A lookup by uid that does not compare the uid
GetEntityByUidUnfiltered(uid) ==
    SelectSeq([i \in 1..Len(entities) |-> i], LAMBDA i : TRUE)

\* Workspace.get_entity(uid): zero or one entity
GetEntityByUid(uid) ==
    SelectSeq([i \in 1..Len(entities) |-> i], LAMBDA i : entities[i].uid = uid)

\* The root entity, created with the workspace
Root == 1

\* Workspace registration that accepts a uid already present
RegisterNoCheck(e) ==
    [ok |-> TRUE,
     entities |-> Append(entities, e),
     tree |-> [u \in DOMAIN tree \cup {e.uid} |->
                 IF u = e.uid
                 THEN [parent |-> entities[Root].uid, children |-> <<>>]
                 ELSE IF u = entities[Root].uid
                      THEN [tree[u] EXCEPT !.children = Append(@, e.uid)]
                      ELSE tree[u]]]

\* Workspace registration of a new entity: DuplicateUUID when the uid is
\* present, otherwise the entity enters the uid map and the tree as a child
\* of the root.
Register(e) ==
    IF e.uid \in DOMAIN tree
    THEN [ok |-> FALSE, err |-> "DuplicateUUID"]
    ELSE RegisterNoCheck(e)

\* Creation of an entity: the constructor, then the registration
CreateEntity(name, uid, generated) ==
    /\ Len(entities) < MaxEntities
    /\ LET made == EntityInit(name, uid, generated)
           reg == IF made.ok THEN Register(made.entity) ELSE made
       IN /\ entities' = IF reg.ok THEN reg.entities ELSE entities
          /\ tree' = IF reg.ok THEN reg.tree ELSE tree
          /\ last' = [op |-> "create", uid |-> uid, ok |-> reg.ok,
                      err |-> IF reg.ok THEN "" ELSE reg.err,
                      used |-> UsedUids, count |-> Len(entities)]
          /\ UNCHANGED <<fileVars, surveyVars, copyVars, nset, dataVars, geoVars, prev>>

\* Entity.name setter, on an entity other than the workspace's root sentinel
SetName(i, new_name) ==
    /\ i # Root
    /\ entities[i].name # fix_up_name(new_name)
    /\ entities' = [entities EXCEPT ![i].name = fix_up_name(new_name)]
    /\ last' = [op |-> "name", self |-> i, ok |-> TRUE]
    /\ UNCHANGED <<fileVars, surveyVars, copyVars, tree, nset, dataVars, geoVars, prev>>

\* The arguments of set_parent: a UUID, an Entity of the workspace, or None
ParentArgs ==
    {[kind |-> "none"]}
        \cup {[kind |-> "uuid", uid |-> u] : u \in UIDs \ {NilUid}}
        \cup {[kind |-> "entity", idx |-> j] : j \in 1..Len(entities)}

\* A resolution that sends every non-UUID argument to the root
ResolveParentRootOnly(parent) ==
    IF parent.kind = "uuid"
    THEN parent.uid
    ELSE entities[GetEntityByName("Workspace")[1]].uid

\* Entity.set_parent, lines 71-77: the uid the argument stands for
ResolveParent(parent) ==
    IF parent.kind = "uuid"
    THEN parent.uid
    ELSE IF parent.kind = "entity"
         THEN entities[parent.idx].uid
         ELSE entities[GetEntityByName("Workspace")[1]].uid

\* Entity.set_parent, lines 79-83: the parent pointer is written first; the
\* lookup of the new parent's children raises KeyError when the uid has no
\* tree entry; the entity is appended unless already listed.
SetParent(i, parent) ==
    LET self == entities[i].uid
        uid == ResolveParent(parent)
        t1 == [tree EXCEPT ![self].parent = uid]
        known == uid \in DOMAIN tree
    IN /\ nset < MaxSetParent
       /\ nset' = nset + 1
       /\ tree' = IF known /\ ~InSeq(self, t1[uid].children)
                  THEN [t1 EXCEPT ![uid].children = Append(@, self)]
                  ELSE t1
       /\ last' = [op |-> "set_parent", self |-> i, parent |-> parent,
                   ok |-> known, err |-> IF known THEN "" ELSE "KeyError",
                   old |-> tree[self].parent]
       /\ UNCHANGED <<fileVars, surveyVars, copyVars, entities, dataVars, geoVars, prev>>

\* Entity.get_parent: the first entity get_entity returns for the parent uid
get_parent(i) ==
    LET found == GetEntityByUid(tree[entities[i].uid].parent)
    IN IF Len(found) = 0
       THEN [ok |-> FALSE, err |-> "IndexError"]
       ELSE [ok |-> TRUE, entity |-> found[1]]

\* The workspace after construction: the root entity "Workspace" alone
InitTree ==
    /\ LET u == CHOOSE x \in UIDs : x # NilUid
       IN /\ entities = <<[uid |-> u, name |-> "Workspace"]>>
          /\ tree = [x \in {u} |-> [parent |-> NilUid, children |-> <<>>]]
    /\ nset = 0

(***************************************************************************)
(* geoh5py/data/data.py                                                    *)
(***************************************************************************)
\* The members of DataAssociationEnum that the specification names
Members == {"VERTEX", "CELL", "FACE", "OBJECT"}

\* The parent object of the Data entity and its element counts
data_parent == [n_vertices |-> MaxLen, n_cells |-> MaxLen - 1, n_faces |-> MaxLen - 2]

\* Value arrays: every length up to MaxLen, filled with one value
Arrays == {[k \in 1..n |-> v] : n \in 1..MaxLen, v \in 1..MaxVal}

DataTypes == {"float_type", "integer_type"}

\* str.upper() on the strings passed to the association setter
Upper(s) ==
    CASE s = "vertex" -> "VERTEX"
      [] s = "Object" -> "OBJECT"
      [] s = "CELL" -> "CELL"
      [] s = "bogus" -> "BOGUS"

\* The values passed to the association setter: strings, enum members, and
\* an object that is neither
AssociationArgs ==
    {[kind |-> "str", s |-> x] : x \in {"vertex", "Object", "CELL", "bogus"}}
        \cup {[kind |-> "enum", member |-> m] : m \in Members}
        \cup {[kind |-> "other"]}

\* Data.n_values: the element count of the parent the association selects
n_values(d) ==
    IF d.association = Some("VERTEX") THEN Some(data_parent.n_vertices)
    ELSE IF d.association = Some("CELL") THEN Some(data_parent.n_cells)
    ELSE IF d.association = Some("FACE") THEN Some(data_parent.n_faces)
    ELSE IF d.association = Some("OBJECT") THEN Some(1)
    ELSE None

\* What a call leaves in prev: for a read its result, for an assignment of
\* the association whether the member changed
Summary(l) ==
    IF l.op \in {"values.get", "vertices.get", "cells.get", "association.set"}
    THEN [op |-> l.op, result |-> l.result, changed |-> l.changed]
    ELSE [op |-> "other", result |-> None, changed |-> FALSE]

Call(op, ok, arg, result, trace, before, changed) ==
    [op |-> op, ok |-> ok, arg |-> arg, result |-> result, trace |-> trace,
     before |-> before, changed |-> changed]

NoCall == Call("init", TRUE, None, None, <<>>, None, FALSE)

\* Data.values (getter): the cached field, whatever on_file says
ReadValues ==
    /\ last' = Call("values.get", TRUE, None, data.values, <<>>,
                    [values |-> data.values, on_file |-> data.on_file,
                     store |-> store.values], FALSE)
    /\ prev' = Summary(last)
    /\ UNCHANGED <<fileVars, surveyVars, copyVars, treeVars, dataVars, geoVars>>

\* The values setter of the Data subclasses: the length is checked against
\* n_values, the array is cached, update_attribute is called and on_file set
SetValues(arr) ==
    LET n == n_values(data)
        ok == n = None \/ Len(arr) = n[1]
    IN /\ data' = IF ok THEN [data EXCEPT !.values = Some(arr), !.on_file = TRUE]
                  ELSE data
       /\ store' = IF ok THEN [store EXCEPT !.values = Some(arr)] ELSE store
       /\ last' = Call("values.set", ok, arr, None,
                       IF ok THEN <<"set:values", "update_attribute:values">>
                       ELSE <<>>,
                       data.values, ok /\ data.values # Some(arr))
       /\ prev' = Summary(last)
       /\ UNCHANGED <<fileVars, surveyVars, copyVars, treeVars, geoVars>>

\* Data.association (setter): a string is upper-cased and looked up among the
\* members (ValueError), anything that is then no member is refused
\* (TypeError), and the member is stored in _association
SetAssociation(value) ==
    LET member == IF value.kind = "str" THEN Upper(value.s)
                  ELSE IF value.kind = "enum" THEN value.member ELSE ""
        ok == member \in Members
    IN /\ data' = IF ok THEN [data EXCEPT !.association = Some(member)] ELSE data
       /\ last' = Call("association.set", ok, value, None, <<>>,
                       data.association, ok /\ data.association # Some(member))
       /\ prev' = Summary(last)
       /\ UNCHANGED <<fileVars, surveyVars, copyVars, treeVars, store, geoVars>>

\* Data.entity_type (setter): the field is written, then
\* workspace.update_attribute(self, "entity_type") is called
SetEntityType(data_type) ==
    /\ data' = [data EXCEPT !.entity_type = data_type]
    /\ store' = [store EXCEPT !.entity_type = data_type]
    /\ last' = Call("entity_type.set", TRUE, data_type, None,
                    <<"set:entity_type", "update_attribute:entity_type">>,
                    data.entity_type, data.entity_type # data_type)
    /\ prev' = Summary(last)
    /\ UNCHANGED <<fileVars, surveyVars, copyVars, treeVars, geoVars>>

\* The in-memory array of an entity that is on file is dropped (clear_cache)
ClearCache ==
    /\ data.on_file
    /\ data.values # None
    /\ data' = [data EXCEPT !.values = None]
    /\ last' = Call("clear_cache", TRUE, None, None, <<>>, data.values, TRUE)
    /\ prev' = Summary(last)
    /\ UNCHANGED <<fileVars, surveyVars, copyVars, treeVars, store, geoVars>>

\* Data.__init__: no association, not on file, the entity type given (and
\* notified to the workspace by the setter), no values
InitData ==
    /\ data = [association |-> None, on_file |-> FALSE, values |-> None,
               entity_type |-> "float_type"]
    /\ store = [values |-> None, entity_type |-> "float_type"]

(***************************************************************************)
(* geoh5py/objects/geo_image.py                                            *)
(***************************************************************************)
\* Image sizes (width, height) in pixels
Sizes == {<<w, MaxPix>> : w \in 1..MaxPix}

\* np.c_[[0, 1, 2, 0], [0, 2, 3, 0]].T.astype("uint32")
default_cells == [dtype |-> "uint32", rows |-> <<<<0, 1, 2, 0>>, <<0, 2, 3, 0>>>>]

\* Index arrays passed to the cells setter
CellsArgs ==
    {[dtype |-> t, rows |-> r] :
        t \in {"uint32", "int64"},
        r \in {default_cells.rows, <<<<0, 1, 2, 0>>>>}}

\* The corners of an image of the given size, as GeoImage.default_vertices
\* lists them
Corners(size) ==
    <<<<0, size[2], 0>>, <<size[1], size[2], 0>>, <<size[1], 0, 0>>, <<0, 0, 0>>>>

\* Values passed to the vertices setter: arrays and lists of shape (4, 3),
\* of other shapes, and an object that is neither
XyzArgs ==
    {[kind |-> k, rows |-> r] :
        k \in {"ndarray", "list"},
        r \in {Corners(sz) : sz \in Sizes}
               \cup {<<<<0, 0, 0>>, <<1, 0, 0>>, <<1, 1, 0>>>>,
                     <<<<0, 0>>, <<1, 0>>, <<1, 1>>, <<0, 1>>>>}}
        \cup {[kind |-> "other", rows |-> <<>>]}

Shape(rows) == IF Len(rows) = 0 THEN <<0>> ELSE <<Len(rows), Len(rows[1])>>

\* np.core.records.fromarrays(xyz.T, names="x, y, z", ...)
ToRecords(rows) ==
    [k \in 1..Len(rows) |-> [x |-> rows[k][1], y |-> rows[k][2], z |-> rows[k][3]]]

\* _vertices.view("<f8").reshape((-1, 3)).astype(float)
FromRecords(recs) ==
    [k \in 1..Len(recs) |-> <<recs[k].x, recs[k].y, recs[k].z>>]

\* Workspace.update_attribute(entity, name): the store takes the field
UpdateAttribute(st, g, name) == [st EXCEPT ![name] = g[name]]

\* Workspace.fetch_array_attribute(uid, name): what the store holds, or None
FetchArrayAttribute(st, name) == st[name]

\* GeoImage.image_data: the first FilenameData child named GeoImageMesh_Image
image_data(ch) ==
    LET found == SelectSeq(ch, LAMBDA c : c.kind = "FilenameData"
                                          /\ c.name = "GeoImageMesh_Image")
    IN IF Len(found) = 0 THEN None ELSE Some(found[1])

\* GeoImage.image: the image decoded from the child's values
image(ch) == IF image_data(ch) = None THEN None ELSE Some(image_data(ch)[1].values)

\* GeoImage.default_vertices
default_vertices(ch) ==
    IF image(ch) # None THEN Some(Corners(image(ch)[1].size)) ELSE None

\* A cells setter that stores the array before looking at its dtype
cells_setter_late_check(g, st, indices) ==
    LET g1 == [g EXCEPT !.cells = Some(indices)]
    IN IF indices.dtype # "uint32"
       THEN [ok |-> FALSE, err |-> "AssertionError", geo |-> g1, store |-> st,
             trace |-> <<"set:cells">>]
       ELSE [ok |-> TRUE, err |-> "", geo |-> g1,
             store |-> UpdateAttribute(st, g1, "cells"),
             trace |-> <<"set:cells", "update_attribute:cells">>]

\* GeoImage.cells (setter)
cells_setter(g, st, indices) ==
    IF indices.dtype # "uint32"
    THEN [ok |-> FALSE, err |-> "AssertionError", geo |-> g, store |-> st,
          trace |-> <<>>]
    ELSE LET g1 == [g EXCEPT !.cells = Some(indices)]
         IN [ok |-> TRUE, err |-> "", geo |-> g1,
             store |-> UpdateAttribute(st, g1, "cells"),
             trace |-> <<"set:cells", "update_attribute:cells">>]

\* A cells getter that returns what it fetched without keeping it
cells_getter_no_cache(g, st) ==
    IF g.cells = None
    THEN IF g.on_file
         THEN [geo |-> g, store |-> st, result |-> FetchArrayAttribute(st, "cells"),
               trace |-> <<"fetch_array_attribute:cells">>]
         ELSE LET r == cells_setter(g, st, default_cells)
              IN [geo |-> r.geo, store |-> r.store, result |-> r.geo.cells,
                  trace |-> r.trace]
    ELSE [geo |-> g, store |-> st, result |-> g.cells, trace |-> <<>>]

\* GeoImage.cells (getter)
cells_getter(g, st) ==
    IF g.cells = None
    THEN IF g.on_file
         THEN LET g1 == [g EXCEPT !.cells = FetchArrayAttribute(st, "cells")]
              IN [geo |-> g1, store |-> st, result |-> g1.cells,
                  trace |-> <<"fetch_array_attribute:cells">>]
         ELSE LET r == cells_setter(g, st, default_cells)
              IN [geo |-> r.geo, store |-> r.store, result |-> r.geo.cells,
                  trace |-> r.trace]
    ELSE [geo |-> g, store |-> st, result |-> g.cells, trace |-> <<>>]

\* GeoImage.vertices (setter)
vertices_setter(g, st, xyz) ==
    IF xyz.kind \notin {"ndarray", "list"} \/ Shape(xyz.rows) # <<4, 3>>
    THEN [ok |-> FALSE, err |-> "ValueError", geo |-> g, store |-> st,
          trace |-> <<>>]
    ELSE LET g1 == [g EXCEPT !.vertices = Some(ToRecords(xyz.rows))]
         IN [ok |-> TRUE, err |-> "", geo |-> g1,
             store |-> UpdateAttribute(st, g1, "vertices"),
             trace |-> <<"set:vertices", "update_attribute:vertices">>]

\* GeoImage.vertices (getter)
vertices_getter(g, st, ch) ==
    LET fetched == g.vertices = None /\ g.on_file
        g1 == IF fetched
              THEN [g EXCEPT !.vertices = FetchArrayAttribute(st, "vertices")]
              ELSE g
        t1 == IF fetched THEN <<"fetch_array_attribute:vertices">> ELSE <<>>
        defaulted == g1.vertices = None /\ image(ch) # None
        r == IF defaulted
             THEN vertices_setter(g1, st, [kind |-> "ndarray",
                                           rows |-> default_vertices(ch)[1]])
             ELSE [geo |-> g1, store |-> st, trace |-> <<>>]
    IN [geo |-> r.geo, store |-> r.store, trace |-> t1 \o r.trace,
        result |-> IF r.geo.vertices # None
                   THEN Some(FromRecords(r.geo.vertices[1]))
                   ELSE None]

ReadCells ==
    LET r == cells_getter(geo, geo_store)
    IN /\ geo' = r.geo
       /\ geo_store' = r.store
       /\ last' = Call("cells.get", TRUE, None, r.result, r.trace, geo.cells, FALSE)
       /\ prev' = Summary(last)
       /\ UNCHANGED <<fileVars, surveyVars, copyVars, treeVars, dataVars, children>>

SetCells(indices) ==
    LET r == cells_setter(geo, geo_store, indices)
    IN /\ geo' = r.geo
       /\ geo_store' = r.store
       /\ last' = Call("cells.set", r.ok, indices, None, r.trace, geo.cells, r.ok)
       /\ prev' = Summary(last)
       /\ UNCHANGED <<fileVars, surveyVars, copyVars, treeVars, dataVars, children>>

ReadVertices ==
    LET r == vertices_getter(geo, geo_store, children)
    IN /\ geo' = r.geo
       /\ geo_store' = r.store
       /\ last' = Call("vertices.get", TRUE, None, r.result, r.trace,
                       geo.vertices, FALSE)
       /\ prev' = Summary(last)
       /\ UNCHANGED <<fileVars, surveyVars, copyVars, treeVars, dataVars, children>>

SetVertices(xyz) ==
    LET r == vertices_setter(geo, geo_store, xyz)
    IN /\ geo' = r.geo
       /\ geo_store' = r.store
       /\ last' = Call("vertices.set", r.ok, xyz, None, r.trace, geo.vertices, r.ok)
       /\ prev' = Summary(last)
       /\ UNCHANGED <<fileVars, surveyVars, copyVars, treeVars, dataVars, children>>

\* Values assigned to GeoImage.image: arrays by shape (rows, columns and, in
\* three dimensions, bands), paths by whether the file exists, bytes, PIL
\* images, and an object of another type
ImageArgs ==
    {[kind |-> "ndarray", shape |-> <<MaxPix>>, size |-> <<0, 0>>]}
        \cup {[kind |-> "ndarray", shape |-> <<sz[2], sz[1]>>, size |-> sz] :
                 sz \in Sizes}
        \cup {[kind |-> "ndarray", shape |-> <<sz[2], sz[1], bands>>, size |-> sz] :
                 sz \in Sizes, bands \in {3, 4}}
        \cup {[kind |-> "str", exists |-> b, size |-> sz] :
                 b \in BOOLEAN, sz \in Sizes}
        \cup {[kind |-> k, size |-> sz] : k \in {"bytes", "Image"}, sz \in Sizes}
        \cup {[kind |-> "other", size |-> <<0, 0>>]}

\* GeoImage.image (setter), lines 124-145: the PIL image the value becomes,
\* or the ValueError
ToImage(value) ==
    IF value.kind = "ndarray" /\ Len(value.shape) \in {2, 3}
    THEN IF Len(value.shape) = 3 /\ value.shape[3] # 3
         THEN [ok |-> FALSE, err |-> "ValueError"]
         ELSE [ok |-> TRUE, image |-> [size |-> <<value.shape[2], value.shape[1]>>]]
    ELSE IF value.kind = "str"
         THEN IF ~value.exists
              THEN [ok |-> FALSE, err |-> "ValueError"]
              ELSE [ok |-> TRUE, image |-> [size |-> value.size]]
         ELSE IF value.kind \in {"bytes", "Image"}
              THEN [ok |-> TRUE, image |-> [size |-> value.size]]
              ELSE [ok |-> FALSE, err |-> "ValueError"]

\* Workspace.remove_entity leaving the child under the GeoImage
RemoveChildKept(ch, child) == ch

\* Workspace.remove_entity on a child of the GeoImage
RemoveChild(ch, child) == SelectSeq(ch, LAMBDA c : c # child)

\* ObjectBase.add_file: a FilenameData child holding the file's bytes
AddFile(ch, name, img) ==
    Append(ch, [kind |-> "FilenameData", name |-> name, values |-> img])

\* GeoImage.image (setter): the value is validated and converted, a previous
\* image child is removed, the new file is added and named, and the vertices
\* are set to the default corners
SetImage(value) ==
    LET img == ToImage(value)
        ch1 == IF image_data(children) # None
               THEN RemoveChild(children, image_data(children)[1])
               ELSE children
        ch2 == AddFile(ch1, "GeoImageMesh_Image", img.image)
        r == vertices_setter(geo, geo_store,
                             [kind |-> "ndarray", rows |-> default_vertices(ch2)[1]])
    IN /\ children' = IF img.ok THEN ch2 ELSE children
       /\ geo' = IF img.ok THEN r.geo ELSE geo
       /\ geo_store' = IF img.ok THEN r.store ELSE geo_store
       /\ last' = Call("image.set", img.ok, value, None,
                       IF img.ok THEN r.trace ELSE <<>>, geo.vertices, img.ok)
       /\ prev' = Summary(last)
       /\ UNCHANGED <<fileVars, surveyVars, copyVars, treeVars, dataVars>>

\* The reference arguments of georeference, by shape: three pixels that are
\* not aligned, one pixel (one dimension), two pixels, and rows of three
RefArgs ==
    {[shape |-> <<3, 2>>, rows |-> <<<<0, 0>>, <<1, 0>>, <<0, 1>>>>],
     [shape |-> <<2>>, rows |-> <<>>],
     [shape |-> <<2, 2>>, rows |-> <<<<0, 0>>, <<1, 0>>>>],
     [shape |-> <<3, 3>>, rows |-> <<<<0, 0, 0>>, <<1, 0, 0>>, <<0, 1, 0>>>>]}

\* The locations arguments of georeference: the world coordinates of three
\* pixels (a shift by t and a scaling by s, the elevation rising with the
\* second pixel coordinate), one location, two locations, and rows of two
LocArgs ==
    {[shape |-> <<3, 3>>,
      rows |-> <<<<t, 0, 0>>, <<t + s, 0, 0>>, <<t, s, 1>>>>] :
        t \in 0..1, s \in 1..MaxPix}
    \cup {[shape |-> <<3>>, rows |-> <<>>],
          [shape |-> <<2, 3>>, rows |-> <<<<0, 0, 0>>, <<1, 0, 0>>>>],
          [shape |-> <<3, 2>>, rows |-> <<<<0, 0>>, <<1, 0>>, <<0, 1>>>>]}

\* np.linalg.lstsq(np.c_[constant, reference], locations[:, j]), lines
\* 195-204, for three reference points that are not aligned: the one affine
\* map that sends each reference point to coordinate j of its location
LstSq(reference, locations, j) ==
    LET r == reference
        l == [k \in 1..3 |-> locations[k][j]]
        det == (r[2][1] - r[1][1]) * (r[3][2] - r[1][2])
                 - (r[3][1] - r[1][1]) * (r[2][2] - r[1][2])
        a == ((l[2] - l[1]) * (r[3][2] - r[1][2])
                 - (l[3] - l[1]) * (r[2][2] - r[1][2])) \div det
        b == ((r[2][1] - r[1][1]) * (l[3] - l[1])
                 - (r[3][1] - r[1][1]) * (l[2] - l[1])) \div det
    IN <<l[1] - a * r[1][1] - b * r[1][2], a, b>>

\* Lines 206-212: the default corners sent through the fitted map
Georeferenced(size, reference, locations) ==
    LET corners == Corners(size)
        p(j) == LstSq(reference, locations, j)
        at(k, j) == p(j)[1] + corners[k][1] * p(j)[2] + corners[k][2] * p(j)[3]
    IN [k \in 1..4 |-> <<at(k, 1), at(k, 2), at(k, 3)>>]

\* georeference checking the shapes of its arguments before the image
georeference_shapes_first(g, st, ch, reference, locations) ==
    LET fail(err) == [ok |-> FALSE, err |-> err, geo |-> g, store |-> st,
                      trace |-> <<>>]
    IN IF Len(reference.shape) # 2 \/ reference.shape[1] < 3
          \/ reference.shape[2] # 2
       THEN fail("ValueError")
       ELSE IF Len(locations.shape) # 2
               \/ reference.shape[1] # locations.shape[1]
               \/ locations.shape[2] # 3
       THEN fail("ValueError")
       ELSE IF image(ch) = None
       THEN fail("AttributeError")
       ELSE vertices_setter(g, st,
                [kind |-> "ndarray",
                 rows |-> Georeferenced(image(ch)[1].size, reference.rows,
                                        locations.rows)])

\* GeoImage.georeference, lines 163-212
georeference(g, st, ch, reference, locations) ==
    LET fail(err) == [ok |-> FALSE, err |-> err, geo |-> g, store |-> st,
                      trace |-> <<>>]
    IN IF image(ch) = None
       THEN fail("AttributeError")
       ELSE IF Len(reference.shape) # 2 \/ reference.shape[1] < 3
               \/ reference.shape[2] # 2
       THEN fail("ValueError")
       ELSE IF Len(locations.shape) # 2
               \/ reference.shape[1] # locations.shape[1]
               \/ locations.shape[2] # 3
       THEN fail("ValueError")
       ELSE vertices_setter(g, st,
                [kind |-> "ndarray",
                 rows |-> Georeferenced(image(ch)[1].size, reference.rows,
                                        locations.rows)])

\* A call of georeference; the record of the call keeps the exception in
\* result and the vertices and the store as they were in before
Georeference(reference, locations) ==
    \E r \in {georeference(geo, geo_store, children, reference, locations)} :
       /\ geo' = r.geo
       /\ geo_store' = r.store
       /\ last' = Call("georeference", r.ok,
                       [reference |-> reference.shape,
                        locations |-> locations.shape],
                       r.err, r.trace,
                       [vertices |-> geo.vertices, store |-> geo_store], r.ok)
       /\ prev' = Summary(last)
       /\ UNCHANGED <<fileVars, surveyVars, copyVars, treeVars, dataVars, children>>

\* The image data of another GeoImage is copied under this one, which has
\* none (create_geo_image_test.py, lines 136-139)
CopyImageDataIn(size) ==
    /\ image_data(children) = None
    /\ children' = AddFile(children, "GeoImageMesh_Image", [size |-> size])
    /\ last' = Call("image_data.copy", TRUE, size, None, <<>>, None, TRUE)
    /\ prev' = Summary(last)
    /\ UNCHANGED <<fileVars, surveyVars, copyVars, treeVars, dataVars, geo, geo_store>>

\* The entity is written to the store: it is on file from then on
SaveGeoImage ==
    /\ ~geo.on_file
    /\ geo' = [geo EXCEPT !.on_file = TRUE]
    /\ last' = Call("save", TRUE, None, None, <<>>, None, TRUE)
    /\ prev' = Summary(last)
    /\ UNCHANGED <<fileVars, surveyVars, copyVars, treeVars, dataVars, geo_store, children>>

\* The in-memory arrays of a GeoImage that is on file are dropped
ClearGeoImageCache ==
    /\ geo.on_file
    /\ geo.vertices # None \/ geo.cells # None
    /\ geo' = [geo EXCEPT !.vertices = None, !.cells = None]
    /\ last' = Call("clear_cache", TRUE, None, None, <<>>, None, TRUE)
    /\ prev' = Summary(last)
    /\ UNCHANGED <<fileVars, surveyVars, copyVars, treeVars, dataVars, geo_store, children>>

\* GeoImage.__init__: no vertices, no cells, no child, not on file
InitGeoImage ==
    /\ geo = [vertices |-> None, cells |-> None, on_file |-> FALSE]
    /\ geo_store = [vertices |-> None, cells |-> None]
    /\ children = <<>>

(***************************************************************************)
(* The file behind the workspace (Workspace.save_entity, finalize)         *)
(***************************************************************************)
\* Entity.save_to_h5: workspace.save_entity(self, close_file) writes the
\* entity to the file
SaveToH5(i) ==
    /\ h5' = [h5 EXCEPT !.saved = @ \cup {entities[i].uid}]
    /\ last' = [op |-> "save_to_h5", ok |-> TRUE]
    /\ UNCHANGED <<treeVars, dataVars, geoVars, surveyVars, copyVars, prev>>

\* Workspace.finalize: the pending writes are flushed; idempotent
Finalize ==
    /\ h5' = [h5 EXCEPT !.flushed = h5.saved]
    /\ last' = [op |-> "finalize", ok |-> TRUE, flushed |-> h5.flushed]
    /\ UNCHANGED <<treeVars, dataVars, geoVars, surveyVars, copyVars, prev>>

\* Data.values (getter), lines 73-78: the cached field
values_getter(d) == d.values

\* A second Workspace is opened on the file of a GeoImage created with
\* vertices and cells and of a Data created with values: both entities are
\* loaded with their scalar attributes, empty array caches and on_file set.
\* The reopening keeps the originals and the file as they were at that time.
Reopen ==
    /\ h5.rec = None
    /\ geo.on_file /\ data.on_file
    /\ geo_store.vertices # None /\ geo_store.cells # None /\ store.values # None
    /\ h5' = [h5 EXCEPT !.rec =
                 Some([geo |-> [vertices |-> None, cells |-> None, on_file |-> TRUE],
                       data |-> [data EXCEPT !.values = None],
                       geo_store |-> geo_store, store |-> store,
                       children |-> children,
                       orig_geo |-> geo, orig_data |-> data])]
    /\ last' = Call("reopen", TRUE, None, None, <<>>, None, TRUE)
    /\ prev' = Summary(last)
    /\ UNCHANGED <<treeVars, dataVars, geoVars, surveyVars, copyVars>>

(***************************************************************************)
(* geoh5py/objects/surveys/electromagnetics/ground_tem.py                  *)
(***************************************************************************)
\* Transmitter loop ids; 0 is the id the value map labels "Unknown"
LoopIds == 0..MaxLoopId

\* The cells of a curve: the segments joining consecutive vertices
ChainCells(n) == [k \in 1..(n - 1) |-> <<k - 1, k>>]

\* The value map the tx_id_property setter builds (lines 246-249): every id
\* among the values is labelled "Loop <id>" and 0 is labelled "Unknown".  A
\* label is written as the id it names, "Unknown" as 0.
LoopLabels(values) == [v \in {values[k] : k \in 1..Len(values)} \cup {0} |-> v]

\* BaseGroundTEM.default_metadata, lines 184-196: the entries that refer to
\* other entities ("" stands for None)
default_metadata == [Receivers |-> "", Transmitters |-> "", TxID |-> ""]

\* A receivers or transmitters entity: n vertices (none when n is 0) joined
\* by segments, and the values of its tx_id_property (None when it has none)
MakeSurvey(kind, uid, n, ids, meta) ==
    [kind |-> kind, uid |-> uid,
     vertices |-> IF n = 0 THEN None ELSE Some([k \in 1..n |-> k]),
     cells |-> IF n = 0 THEN None ELSE Some(ChainCells(n)),
     tx_id |-> ids,
     vmap |-> IF ids = None THEN None ELSE Some(LoopLabels(ids[1])),
     meta |-> meta]

\* The tx ids of n elements: the stations or loops of one transmitter loop
\* follow each other, so the ids are listed in non-decreasing order
IdArrays(n) ==
    {s \in [1..n -> LoopIds] : \A k \in 1..(n - 1) : s[k] <= s[k + 1]}

\* Receivers carry one loop id per vertex, transmitters one per cell
RxArgs ==
    UNION {{[n |-> n, ids |-> i] :
               i \in {None} \cup (IF n = 0 THEN {}
                                  ELSE {Some(s) : s \in IdArrays(n)})} :
           n \in 0..MaxVerts}

TxArgs ==
    UNION {{[n |-> n, ids |-> i] :
               i \in {None} \cup (IF n = 0 THEN {}
                                  ELSE {Some(s) : s \in IdArrays(n - 1)})} :
           n \in {0} \cup 2..MaxVerts}

\* The creation of a receivers and a transmitters entity; when they are
\* paired (receivers.transmitters = transmitters) edit_metadata leaves them
\* with one metadata dictionary
CreatePair(rxa, txa, paired) ==
    /\ gt = None
    /\ LET own(uid, a) == [default_metadata EXCEPT
                              !.TxID = IF a.ids = None THEN "" ELSE uid]
           both == [Receivers |-> "rx", Transmitters |-> "tx",
                    TxID |-> IF txa.ids # None THEN "tx_data"
                             ELSE IF rxa.ids # None THEN "rx_data" ELSE ""]
       IN gt' = Some([rx |-> MakeSurvey("Receivers", "rx", rxa.n, rxa.ids,
                                        IF paired THEN both ELSE own("rx_data", rxa)),
                      tx |-> MakeSurvey("Transmitters", "tx", txa.n, txa.ids,
                                        IF paired THEN both ELSE own("tx_data", txa)),
                      paired |-> paired, created |-> <<>>, called |-> FALSE])
    /\ last' = [op |-> "create_pair", ok |-> TRUE]
    /\ UNCHANGED <<treeVars, dataVars, geoVars, fileVars, surveyVars, prev>>

\* The mask arguments of copy for an entity of n vertices: None, a list,
\* every boolean array of length n, and arrays one shorter and one longer
MaskArgs(n) ==
    {[kind |-> "none", vals |-> <<>>]}
        \cup {[kind |-> "list", vals |-> [k \in 1..n |-> TRUE]]}
        \cup {[kind |-> "ndarray", vals |-> m] : m \in [1..n -> BOOLEAN]}
        \cup {[kind |-> "ndarray", vals |-> [k \in 1..len |-> TRUE]] :
                 len \in {n - 1, n + 1} \ {-1}}

\* numpy boolean indexing, s[m]: the entries of s at the positions m selects
Compress(s, m) ==
    LET idx == {k \in 1..Len(s) : m[k]}
        pos(j) == CHOOSE k \in idx : Cardinality({i \in idx : i <= k}) = j
    IN [j \in 1..Cardinality(idx) |-> s[pos(j)]]

\* The index a selected vertex (0-based) has among the selected vertices
Renumber(m, a) == Cardinality({j \in 1..a : m[j]})

\* ObjectBase.copy with a vertex mask and a cell mask (the copy protocol of
\* the specification, steps 1 to 3): a new entity of the same type, without
\* the omitted fields (_metadata, _tx_id_property, the pairing); under a mask
\* the selected vertices are kept, a cell is kept when all its vertices are
\* and the cell mask selects it, and its indices are renumbered.  A mask
\* given to an entity without vertices selects nothing and is ignored.
ObjectCopy(src, uid, mask, cell_mask) ==
    LET base == [src EXCEPT !.uid = uid, !.tx_id = None, !.vmap = None,
                            !.meta = default_metadata]
    IN IF mask = None \/ src.vertices = None
       THEN base
       ELSE LET m == mask[1]
                cs == src.cells[1]
                keep == [k \in 1..Len(cs) |->
                            /\ m[cs[k][1] + 1]
                            /\ m[cs[k][2] + 1]
                            /\ (cell_mask = None \/ cell_mask[1][k])]
                kept == Compress(cs, keep)
            IN [base EXCEPT
                  !.vertices = Some(Compress(src.vertices[1], m)),
                  !.cells = Some([k \in 1..Len(kept) |->
                                     <<Renumber(m, kept[k][1]),
                                       Renumber(m, kept[k][2])>>])]

\* The uid of the "Transmitter ID" data the setter adds to an entity
DataUid(uid) ==
    CASE uid = "rx" -> "rx_data"
      [] uid = "tx" -> "tx_data"
      [] uid = "copy" -> "copy_data"
      [] uid = "ccopy" -> "ccopy_data"

\* BaseGroundTEM.tx_id_property (setter) given an array, lines 236-272: the
\* entity type is the complement's when it has a tx_id_property, otherwise a
\* new value map is built; the data is added and recorded in the metadata
tx_id_setter(e, value, complement) ==
    [e EXCEPT !.tx_id = Some(value),
              !.vmap = IF complement # None /\ complement[1].tx_id # None
                       THEN complement[1].vmap
                       ELSE Some(LoopLabels(value)),
              !.meta = [@ EXCEPT !.TxID = DataUid(e.uid)]]

\* A derived cell mask that selects a cell as soon as one vertex is selected
DerivedCellMaskAny(self, m) ==
    IF m # None
    THEN IF self.kind = "Receivers"
         THEN m[1]
         ELSE [k \in 1..Len(self.cells[1]) |->
                  m[1][self.cells[1][k][1] + 1] \/ m[1][self.cells[1][k][2] + 1]]
    ELSE [k \in 1..Len(self.tx_id[1]) |-> TRUE]

\* BaseGroundTEM.copy, lines 92-98: the mask applied to the tx ids.  The
\* vertex mask itself on receivers, np.all(mask[self.cells], axis=1) on
\* transmitters, and all ones without a mask.
DerivedCellMask(self, m) ==
    IF m # None
    THEN IF self.kind = "Receivers"
         THEN m[1]
         ELSE [k \in 1..Len(self.cells[1]) |->
                  m[1][self.cells[1][k][1] + 1] /\ m[1][self.cells[1][k][2] + 1]]
    ELSE [k \in 1..Len(self.tx_id[1]) |-> TRUE]

SetOf(s) == {s[k] : k \in 1..Len(s)}

\* BaseGroundTEM.copy, lines 157-164: {val: ind for ind, val in
\* enumerate(np.r_[0, np.unique(ids)])}.  The array enumerated is 0 followed
\* by the sorted distinct ids, and a later index replaces an earlier one for
\* the same value: an id v is sent to 1 + the number of smaller ids (0
\* included, when 0 is among the ids), and 0 is sent to 0 only when it is not
\* among the ids.
value_map(ids) ==
    [v \in ids \cup {0} |->
        IF v \in ids THEN 1 + Cardinality({x \in ids : x < v}) ELSE 0]

\* The metadata entry named after the type of an entity
TypeKey(e) == IF e.kind = "Receivers" THEN "Receivers" ELSE "Transmitters"

ComplementKey(e) == IF e.kind = "Receivers" THEN "Transmitters" ELSE "Receivers"

CopyResult(ok, err, new, newc, created, self_meta, cell_mask, copied, ccopied, renumbered) ==
    [ok |-> ok, err |-> err, new |-> new, newc |-> newc, created |-> created,
     self_meta |-> self_meta, cell_mask |-> cell_mask, copied |-> copied,
     ccopied |-> ccopied, renumbered |-> renumbered]

\* BaseGroundTEM.copy, lines 116-175: the complement is copied under the
\* mask of the loops both sides share, paired with the new entity, given its
\* tx ids, and the ids of both copies are renumbered through value_map.
\* A missing key (lines 166, 170, 173) raises KeyError.
PairedCopy(self, c, e1, created1, self_meta, cell_mask, copied) ==
    LET cids == c.tx_id[1]
        intersect == SetOf(e1.tx_id[1]) \cap SetOf(cids)
        sel == [k \in 1..Len(cids) |-> cids[k] \in intersect]
        ccell == IF c.kind = "Receivers" THEN None ELSE Some(sel)
        cmask == IF c.kind = "Receivers"
                 THEN sel
                 ELSE [j \in 1..Len(c.vertices[1]) |->
                          \E k \in 1..Len(cids) :
                              /\ sel[k]
                              /\ j - 1 \in {c.cells[1][k][1], c.cells[1][k][2]}]
        tx_ids == Compress(cids, sel)
        c0 == ObjectCopy(c, "ccopy", Some(cmask), ccell)
        linked == [e1.meta EXCEPT ![ComplementKey(e1)] = "ccopy"]
        e2 == [e1 EXCEPT !.meta = linked]
        c1 == tx_id_setter([c0 EXCEPT !.meta = linked], tx_ids, Some(e2))
        e3 == [e2 EXCEPT !.meta = c1.meta]
        created == created1 \o <<"ccopy", "ccopy_data">>
        transmitters == IF self.kind = "Receivers" THEN c1 ELSE e3
        vm == value_map(SetOf(transmitters.tx_id[1]))
        labels == transmitters.vmap[1]
        new_map_ok == \A v \in DOMAIN vm : vm[v] \in DOMAIN labels
        new_map == [i \in {vm[v] : v \in DOMAIN vm} |-> labels[i]]
        c2 == [c1 EXCEPT !.tx_id = Some([k \in 1..Len(tx_ids) |-> vm[tx_ids[k]]])]
        e_ok == \A k \in 1..Len(e3.tx_id[1]) : e3.tx_id[1][k] \in DOMAIN vm
    IN IF ~new_map_ok
       THEN CopyResult(FALSE, "KeyError", Some(e3), Some(c1), created, self_meta,
                       cell_mask, copied, Some(tx_ids), FALSE)
       ELSE IF ~e_ok
       THEN CopyResult(FALSE, "KeyError", Some(e3), Some(c2), created, self_meta,
                       cell_mask, copied, Some(tx_ids), FALSE)
       ELSE CopyResult(TRUE, "",
                       Some([e3 EXCEPT
                               !.tx_id = Some([k \in 1..Len(e3.tx_id[1]) |->
                                                  vm[e3.tx_id[1][k]]]),
                               !.vmap = Some(new_map)]),
                       Some([c2 EXCEPT !.vmap = Some(new_map)]),
                       created, self_meta, cell_mask, copied, Some(tx_ids), TRUE)

\* BaseGroundTEM.copy, lines 76-115, with the mask super().copy uses: the
\* entity is copied, the tx ids the derived cell mask selects are set on the
\* copy, the entry of the metadata named after the copy's type is pointed at
\* the copy (the dictionary copied on line 69 shares its "EM Dataset" entry
\* with the source), and the complement is looked at
CopyBody(self, complement, m) ==
    LET e0 == ObjectCopy(self, "copy", m, None)
        has_ids == self.cells # None /\ self.tx_id # None
        cell_mask == IF has_ids THEN Some(DerivedCellMask(self, m)) ELSE None
        copied == IF has_ids THEN Some(Compress(self.tx_id[1], cell_mask[1]))
                  ELSE None
        e1 == IF has_ids THEN tx_id_setter(e0, copied[1], None) ELSE e0
        created1 == IF has_ids THEN <<"copy", "copy_data">> ELSE <<"copy">>
        self_meta == [self.meta EXCEPT ![TypeKey(e1)] = "copy"]
    IN IF /\ e1.tx_id # None
          /\ complement # None
          /\ complement[1].tx_id # None
          /\ complement[1].vertices # None
          /\ complement[1].cells # None
       THEN PairedCopy(self, complement[1], e1, created1, self_meta, cell_mask,
                       copied)
       ELSE CopyResult(TRUE, "", Some(e1), None, created1, self_meta, cell_mask,
                       copied, None, FALSE)

\* A copy that ignores a mask it should refuse, and copies everything
ground_tem_copy_unchecked(self, complement, mask) ==
    IF /\ mask.kind # "none"
       /\ self.vertices # None
       /\ (mask.kind # "ndarray" \/ Len(mask.vals) # Len(self.vertices[1]))
    THEN CopyBody(self, complement, None)
    ELSE CopyBody(self, complement,
                  IF mask.kind = "none" \/ self.vertices = None
                  THEN None ELSE Some(mask.vals))

\* BaseGroundTEM.copy, lines 69-74: a mask is looked at only when the survey
\* has vertices; it must be an array with one entry per vertex
ground_tem_copy(self, complement, mask) ==
    IF /\ mask.kind # "none"
       /\ self.vertices # None
       /\ (mask.kind # "ndarray" \/ Len(mask.vals) # Len(self.vertices[1]))
    THEN CopyResult(FALSE, "ValueError", None, None, <<>>, self.meta, None, None,
                    None, FALSE)
    ELSE CopyBody(self, complement,
                  IF mask.kind = "none" \/ self.vertices = None
                  THEN None ELSE Some(mask.vals))

NVerts(e) == IF e.vertices = None THEN 0 ELSE Len(e.vertices[1])

\* survey.copy(mask=mask) on the receivers or on the transmitters; the
\* complement is the other entity when the two are paired.  One call is made
\* on each pair.
Copy(who, mask) ==
    /\ gt # None
    /\ ~gt[1].called
    /\ LET g == gt[1]
           other == IF who = "rx" THEN "tx" ELSE "rx"
       IN \E r \in {ground_tem_copy(g[who],
                                     IF g.paired THEN Some(g[other]) ELSE None,
                                     mask)} :
          /\ gt' = Some([g EXCEPT ![who].meta = r.self_meta,
                                  ![other].meta = IF g.paired THEN r.self_meta ELSE @,
                                  !.created = r.created,
                                  !.called = TRUE])
          /\ last' = [op |-> "copy", who |-> who, mask |-> mask, ok |-> r.ok,
                      err |-> r.err, result |-> r, before |-> g]
    /\ UNCHANGED <<treeVars, dataVars, geoVars, fileVars, surveyVars, prev>>

(***************************************************************************)
(* geoh5py/objects/surveys/electromagnetics/base.py                        *)
(*                                                                         *)
(* One survey (a large-loop ground TEM receivers or transmitters entity)   *)
(* and, once it is paired, its complement.  em.meta is the "EM Dataset"    *)
(* dictionary of the survey, em.complement the one of the complement       *)
(* (None while the survey has no complement), em.shared tells that both    *)
(* entities hold the same dictionary object, and em.groups lists the       *)
(* property groups of the survey, each with its name and its number of     *)
(* properties.  A list of channels is written as its length.               *)
(***************************************************************************)
CompNames == {"A", "B"}

\* BaseGroundTEM.default_metadata, lines 184-196, with the entries the
\* survey operations read ("" stands for None; the waveform is left out)
EMDefault ==
    default_metadata @@ [Channels |-> Some(0), InputType |-> "Tx and Rx",
                         Groups |-> <<>>, Unit |-> "Milliseconds (ms)"]

\* BaseGroundTEM.__INPUT_TYPE, line 31
default_input_types == {"Tx and Rx"}

\* The time units listed by default_units, lines 186-187
default_units ==
    {"Seconds (s)", "Milliseconds (ms)", "Microseconds (us)", "Nanoseconds (ns)"}

\* The values given to the survey: None, a list of n floats, a string or
\* uid, a PropertyGroup of a given name, and a list of values
NoneValue == [kind |-> "none", name |-> "", n |-> 0, vals |-> <<>>]

Floats(n) == [kind |-> "floats", name |-> "", n |-> n, vals |-> <<>>]

Str(s) == [kind |-> "str", name |-> s, n |-> 0, vals |-> <<>>]

Group(name) == [kind |-> "group", name |-> name, n |-> 0, vals |-> <<>>]

List(vals) == [kind |-> "list", name |-> "", n |-> 0, vals |-> vals]

\* The outcome of a call: the survey it leaves, and the exception raised
\* with the line that raises it
Ok(E) == [em |-> E, ok |-> TRUE, err |-> "", line |-> 0]

Raise(E, err, line) == [em |-> E, ok |-> FALSE, err |-> err, line |-> line]

\* A write into the metadata dictionary of the survey: the complement sees
\* it when it holds the same dictionary
WriteMeta(E, D) ==
    [E EXCEPT !.meta = D, !.complement = IF E.shared THEN Some(D) ELSE @]

GroupNames(E) == {E.groups[k].name : k \in 1..Len(E.groups)}

GroupNamed(E, name) ==
    E.groups[CHOOSE k \in 1..Len(E.groups) : E.groups[k].name = name]

\* A metadata setter of the child class that keeps a copy of the dictionary
\* it is given
metadata_setter_by_value(E) == [E EXCEPT !.complement = Some(E.meta)]

\* complement.metadata = self.metadata on the child class: the complement
\* keeps the dictionary it is given
metadata_setter(E) == [E EXCEPT !.complement = Some(E.meta), !.shared = TRUE]

\* edit_metadata without lines 216-220
PropagateNothing(E) == E

\* edit_metadata, lines 216-220: the metadata is handed to the paired
\* receivers and transmitters
Propagate(E) == IF E.complement = None THEN E ELSE metadata_setter(E)

\* _edit_validate_property_groups appending the name of the group whether
\* or not the list holds it
ValidateGroupAppendAlways(E, val) ==
    IF ~(val.kind = "group" \/ (val.kind = "str" /\ val.name \in GroupNames(E)))
    THEN Raise(E, "TypeError", 242)
    ELSE IF E.meta.Channels = None
    THEN Raise(E, "KeyError", 152)
    ELSE IF GroupNamed(E, val.name).n # E.meta.Channels[1]
    THEN Raise(E, "ValueError", 248)
    ELSE Ok(WriteMeta(E, [E.meta EXCEPT !.Groups = Append(@, val.name)]))

\* _edit_validate_property_groups, lines 235-254, for one entry of the list:
\* a PropertyGroup ("group"), the name of a group of the survey ("str"),
\* or anything else
ValidateGroup(E, val) ==
    IF ~(val.kind = "group" \/ (val.kind = "str" /\ val.name \in GroupNames(E)))
    THEN Raise(E, "TypeError", 242)
    ELSE IF E.meta.Channels = None
    THEN Raise(E, "KeyError", 152)
    ELSE IF GroupNamed(E, val.name).n # E.meta.Channels[1]
    THEN Raise(E, "ValueError", 248)
    ELSE IF val.name \in SetOf(E.meta.Groups)
    THEN Ok(E)
    ELSE Ok(WriteMeta(E, [E.meta EXCEPT !.Groups = Append(@, val.name)]))

RECURSIVE ValidateGroups(_, _, _)
ValidateGroups(E, vals, k) ==
    IF k > Len(vals)
    THEN Ok(E)
    ELSE LET r == ValidateGroup(E, vals[k])
         IN IF r.ok THEN ValidateGroups(r.em, vals, k + 1) ELSE r

\* _edit_validate_property_groups, lines 222-254: None empties the list of
\* names and is then rejected as an entry of the list [None]
edit_validate_property_groups(E, value) ==
    LET E1 == IF value.kind = "none"
              THEN WriteMeta(E, [E.meta EXCEPT !.Groups = <<>>])
              ELSE E
        vals == IF value.kind = "list" THEN value.vals ELSE <<value>>
    IN ValidateGroups(E1, vals, 1)

\* edit_metadata, lines 209-214: a value of None deletes the key, any other
\* value is stored under it
SetKey(D, key, value) ==
    LET str == IF value.kind = "none" THEN "" ELSE value.name
    IN CASE key = "Channels" ->
                [D EXCEPT !.Channels = IF value.kind = "none" THEN None
                                       ELSE Some(value.n)]
         [] key = "Unit" -> [D EXCEPT !.Unit = str]
         [] key = "Input type" -> [D EXCEPT !.InputType = str]
         [] key = "Tx ID property" -> [D EXCEPT !.TxID = str]
         [] key = "Transmitters" -> [D EXCEPT !.Transmitters = str]
         [] key = "Receivers" -> [D EXCEPT !.Receivers = str]

\* edit_metadata, lines 198-214: the entries are applied in order, each as
\* soon as it is read
RECURSIVE ApplyEntries(_, _, _)
ApplyEntries(E, entries, k) ==
    IF k > Len(entries)
    THEN Ok(E)
    ELSE LET entry == entries[k]
             r == IF entry.key = "Property groups"
                  THEN edit_validate_property_groups(E, entry.value)
                  ELSE Ok(WriteMeta(E, SetKey(E.meta, entry.key, entry.value)))
         IN IF r.ok THEN ApplyEntries(r.em, entries, k + 1) ELSE r

\* edit_metadata, lines 191-220
edit_metadata(E, entries) ==
    LET r == ApplyEntries(E, entries, 1)
    IN IF r.ok THEN Ok(Propagate(r.em)) ELSE r

\* len(component_block) of a list or a dictionary
BlockLen(block) == block.n

\* add_component_data, lines 97-142, from component k on.  ret lists the
\* groups made so far and created counts the Data made by add_data (line
\* 138).  A dictionary block is given by its length and by the position of
\* its first entry that is not a dictionary (0 when all are); a list block
\* by its length, whether all its entries are FloatData, and whether they
\* are children of the survey.  add_data_to_group (line 140) makes the
\* group of the component, which no group of the survey is named after.
RECURSIVE AddComponents(_, _, _, _, _)
AddComponents(E, comps, k, ret, created) ==
    IF k > Len(comps)
    THEN Ok(E) @@ [ret |-> ret, created |-> created, finalize |-> 1]
    ELSE LET name == comps[k].name
             block == comps[k].block
             fail(E1, err, line, made) ==
                 Raise(E1, err, line)
                     @@ [ret |-> <<>>, created |-> made, finalize |-> 0]
         IN IF name \in GroupNames(E)
            THEN fail(E, "ValueError", 99, created)
            ELSE IF block.kind = "other"
                    \/ (block.kind = "list" /\ ~block.floats)
            THEN fail(E, "TypeError", 109, created)
            ELSE IF E.meta.Channels = None
            THEN fail(E, "KeyError", 152, created)
            ELSE IF BlockLen(block) # E.meta.Channels[1]
            THEN fail(E, "ValueError", 116, created)
            ELSE IF block.kind = "list" /\ ~block.own
            THEN fail(E, "AssertionError", 123, created)
            ELSE IF block.kind = "dict" /\ block.bad # 0
            THEN fail(E, "TypeError", 134, created + block.bad - 1)
            ELSE LET made == IF block.kind = "dict"
                             THEN created + block.n ELSE created
                     E1 == [E EXCEPT !.groups =
                               Append(@, [name |-> name, n |-> block.n])]
                     r == edit_metadata(E1,
                              <<[key |-> "Property groups",
                                 value |-> Group(name)]>>)
                 IN IF r.ok
                    THEN AddComponents(r.em, comps, k + 1,
                                       Append(ret, name), made)
                    ELSE fail(r.em, r.err, r.line, made)

\* add_component_data looking at its argument before its channels
add_component_data_type_first(E, arg) ==
    LET fail(err, line) ==
            Raise(E, err, line) @@ [ret |-> <<>>, created |-> 0, finalize |-> 0]
    IN IF arg.kind # "dict"
       THEN fail("TypeError", 93)
       ELSE IF E.meta.Channels = None
       THEN fail("KeyError", 152)
       ELSE IF E.meta.Channels[1] = 0
       THEN fail("AttributeError", 87)
       ELSE AddComponents(E, arg.comps, 1, <<>>, 0)

\* add_component_data, lines 85-145: an argument that is not a dictionary
\* is of kind "other"
add_component_data(E, arg) ==
    LET fail(err, line) ==
            Raise(E, err, line) @@ [ret |-> <<>>, created |-> 0, finalize |-> 0]
    IN IF E.meta.Channels = None
       THEN fail("KeyError", 152)
       ELSE IF E.meta.Channels[1] = 0
       THEN fail("AttributeError", 87)
       ELSE IF arg.kind # "dict"
       THEN fail("TypeError", 93)
       ELSE AddComponents(E, arg.comps, 1, <<>>, 0)

\* channels setter, lines 155-167: a list of floats is of kind "floats"
channels_setter(E, values) ==
    IF values.kind # "floats"
    THEN Raise(E, "TypeError", 163)
    ELSE edit_metadata(E, <<[key |-> "Channels", value |-> values]>>)

\* unit setter, lines 322-327
unit_setter(E, value) ==
    IF value \notin default_units
    THEN Raise(E, "ValueError", 326)
    ELSE edit_metadata(E, <<[key |-> "Unit", value |-> Str(value)]>>)

\* input_type setter, lines 264-270
input_type_setter(E, value) ==
    IF value \notin default_input_types
    THEN Raise(E, "AssertionError", 267)
    ELSE edit_metadata(E, <<[key |-> "Input type", value |-> Str(value)]>>)

\* tx_id_property setter, ground_tem.py lines 231-272: an array is stored
\* as a new ReferencedData of the survey (line 255), None clears the
\* property, and any other value is rejected
tx_id_property_setter(E, value) ==
    IF value \notin {"ndarray", "none"}
    THEN Raise(E, "TypeError", 266) @@ [created |-> 0]
    ELSE edit_metadata(E, <<[key |-> "Tx ID property",
                             value |-> IF value = "ndarray"
                                       THEN Str("Transmitter ID")
                                       ELSE NoneValue]>>)
             @@ [created |-> IF value = "ndarray" THEN 1 ELSE 0]

\* receivers.transmitters = transmitters (or transmitters.receivers =
\* receivers): the survey keeps its complement and records it in the
\* metadata through edit_metadata
complement_setter(E) ==
    edit_metadata([E EXCEPT !.complement = Some(EMDefault)],
                  <<[key |-> "Transmitters", value |-> Str("tx")]>>)
\* The blocks a component of add_component_data's argument can be, on a
\* survey of c channels.  The length of a block is only ever compared with
\* c, so a block has c entries or one more; an empty list holds FloatData
\* only, and belonging to the survey is asked of lists of FloatData only.
Blocks(c) ==
    {[kind |-> "dict", n |-> c, bad |-> bad, floats |-> FALSE, own |-> FALSE] :
        bad \in 0..c}
    \cup {[kind |-> "dict", n |-> c + 1, bad |-> 0, floats |-> FALSE, own |-> FALSE]}
    \cup {[kind |-> "list", n |-> n, bad |-> 0, floats |-> TRUE, own |-> TRUE] :
             n \in {c, c + 1}}
    \cup {[kind |-> "list", n |-> c, bad |-> 0, floats |-> TRUE, own |-> FALSE],
          [kind |-> "list", n |-> c, bad |-> 0, floats |-> FALSE, own |-> FALSE]}
    \cup {[kind |-> "other", n |-> 0, bad |-> 0, floats |-> FALSE, own |-> FALSE]}

\* The blocks that pass every check of add_component_data
GoodBlocks(c) ==
    {b \in Blocks(c) : /\ b.n = c
                       /\ \/ b.kind = "dict" /\ b.bad = 0
                          \/ b.kind = "list" /\ b.floats /\ b.own}

\* The arguments of add_component_data: something that is not a dictionary,
\* or a dictionary of up to two components; the keys of a dictionary differ.
\* The second component is only looked at after the first one was added, so
\* the first of two components is a block that passes the checks.
DataArgs(E) ==
    LET c == IF E.meta.Channels = None THEN 0 ELSE E.meta.Channels[1]
        comps(bs) == {[name |-> n, block |-> b] : n \in CompNames, b \in bs}
    IN {[kind |-> "other", comps |-> <<>>], [kind |-> "dict", comps |-> <<>>]}
       \cup {[kind |-> "dict", comps |-> <<x>>] : x \in comps(Blocks(c))}
       \cup {[kind |-> "dict", comps |-> <<p[1], p[2]>>] :
                p \in {q \in comps(GoodBlocks(c)) \X comps(Blocks(c)) :
                           q[1].name # q[2].name}}

\* The values given for "Property groups": None, a name, a PropertyGroup of
\* the survey, or a list of names
GroupValues(E) ==
    {NoneValue}
    \cup {Str(n) : n \in CompNames}
    \cup {Group(n) : n \in GroupNames(E)}
    \cup {List(<<Str(p[1]), Str(p[2])>>) :
             p \in {q \in CompNames \X CompNames : q[1] # q[2]}}

\* The entries given to edit_metadata
Entries(E) ==
    {[key |-> "Channels", value |-> v] :
        v \in {NoneValue, Floats(0), Floats(MaxChannels)}}
    \cup {[key |-> "Unit", value |-> Str("Milliseconds (ms)")]}
    \cup {[key |-> "Property groups", value |-> v] : v \in GroupValues(E)}

\* One entry, or an entry followed by one for "Property groups"
EntryArgs(E) ==
    {<<e>> : e \in Entries(E)}
    \cup {<<p[1], p[2]>> :
             p \in {q \in Entries(E) \X Entries(E) :
                        q[1].key = "Channels" /\ q[2].key = "Property groups"}}

\* What a call on the survey leaves: the survey, and the record of the
\* call.  changed tells whether the call left the survey (its metadata, its
\* groups, its complement) other than it found it, names lists the
\* components of the argument, and dup tells whether one of them was named
\* after a group the survey had.
SurveyCall(op, arg, names, r, created, ret, finalize, dup) ==
    /\ em' = r.em
    /\ last' = [op |-> op, arg |-> arg, names |-> names, ok |-> r.ok,
                err |-> r.err, line |-> r.line, created |-> created,
                ret |-> ret, finalize |-> finalize, changed |-> r.em # em,
                dup |-> dup]
    /\ UNCHANGED <<treeVars, dataVars, geoVars, fileVars, copyVars, md, prev>>

AddComponentData(arg) ==
    \E r \in {add_component_data(em, arg)} :
       SurveyCall("add_component_data", arg.kind,
                  [k \in 1..Len(arg.comps) |-> arg.comps[k].name], r,
                  r.created, r.ret, r.finalize,
                  \E k \in 1..Len(arg.comps) :
                      arg.comps[k].name \in GroupNames(em))

EditMetadata(entries) ==
    \E r \in {edit_metadata(em, entries)} :
       SurveyCall("edit_metadata", "", <<>>, r, 0, <<>>, 0, FALSE)

SetChannels(values) ==
    \E r \in {channels_setter(em, values)} :
       SurveyCall("channels", values.kind, <<>>, r, 0, <<>>, 0, FALSE)

SetUnit(value) ==
    \E r \in {unit_setter(em, value)} :
       SurveyCall("unit", value, <<>>, r, 0, <<>>, 0, FALSE)

SetInputType(value) ==
    \E r \in {input_type_setter(em, value)} :
       SurveyCall("input_type", value, <<>>, r, 0, <<>>, 0, FALSE)

SetTxIdProperty(value) ==
    \E r \in {tx_id_property_setter(em, value)} :
       SurveyCall("tx_id_property", value, <<>>, r, r.created, <<>>, 0, FALSE)

SetComplement ==
    /\ em.complement = None
    /\ \E r \in {complement_setter(em)} :
          SurveyCall("complement", "", <<>>, r, 0, <<>>, 0, FALSE)

\* Nothing written to the file, and no second workspace opened on it
InitFile == h5 = [saved |-> {}, flushed |-> {}, rec |-> None]

\* A survey as created: the default metadata, no property group and no
\* complement
InitSurvey ==
    em = [meta |-> EMDefault, complement |-> None, shared |-> FALSE,
          groups |-> <<>>]

InitCopy == gt = None

InitCalls ==
    /\ last = NoCall
    /\ prev = Summary(NoCall)

(***************************************************************************)
(* The metadata of BaseEMSurvey objects (base.py).  Python dictionaries    *)
(* are objects held by reference: md.class is the "EM Dataset" entry of    *)
(* the dictionary the class keeps as __METADATA, md.store[s] is the entry  *)
(* of the metadata the workspace holds for survey s, if any, and md.ref[s] *)
(* tells which dictionary the _metadata field of s refers to: None, the    *)
(* dictionary of the class, or the dictionary fetched for a survey.  An    *)
(* "EM Dataset" entry is written as a function from its keys to values.    *)
(***************************************************************************)
Surveys == {"a", "b"}

MetaKeys == {"Unit", "Survey type"}

MetaValues == {"x", "y"}

\* The dictionary {}
EmptyDict == [k \in {} |-> "x"]

\* The "EM Dataset" entries a workspace may hold for a survey
StoredDicts == {[k \in {"Unit"} |-> v] : v \in MetaValues}

\* BaseEMSurvey.__METADATA, line 35: one dictionary, made when the class is
\* defined
ClassMetadata == EmptyDict

\* d[key] = value
SetItem(d, key, value) ==
    [k \in DOMAIN d \cup {key} |-> IF k = key THEN value ELSE d[k]]

\* del d[key]
DelItem(d, key) == [k \in DOMAIN d \ {key} |-> d[k]]

\* Workspace.fetch_metadata(uid): the metadata held for the uid, or None
fetch_metadata(m, s) == IF m.store[s] = None THEN None ELSE Some(s)

\* The "EM Dataset" entry of the dictionary a reference leads to
Deref(m, r) == IF r = "class" THEN m.class ELSE m.store[r][1]

\* BaseEMSurvey.default_metadata, lines 174-177: the dictionary of the class
base_default_metadata == "class"

\* BaseEMSurvey.metadata (getter), lines 272-281: the field is assigned
\* only when the workspace holds nothing for the uid, and the field is what
\* is returned
base_metadata(m, s) ==
    LET fetched == fetch_metadata(m, s)
        m1 == IF m.ref[s] = None /\ fetched = None
              THEN [m EXCEPT !.ref[s] = Some(base_default_metadata)]
              ELSE m
    IN [md |-> m1, ref |-> m1.ref[s],
        value |-> IF m1.ref[s] = None THEN None
                  ELSE Some(Deref(m1, m1.ref[s][1]))]

\* A write through a reference: the dictionary it leads to is changed for
\* every holder of the reference
WriteThrough(m, r, d) ==
    IF r = "class" THEN [m EXCEPT !.class = d]
    ELSE [m EXCEPT !.store[r] = Some(d)]

\* BaseEMSurvey.edit_metadata, lines 198-220, for one entry whose key is
\* none of the waveform keys or 'Property groups'.  self.metadata is read
\* and subscripted (TypeError when it is None); receivers and transmitters
\* are None on the base class, so nothing is propagated
base_edit_metadata(m, s, key, value) ==
    LET g == base_metadata(m, s)
    IN IF g.value = None
       THEN [ok |-> FALSE, err |-> "TypeError", md |-> g.md]
       ELSE [ok |-> TRUE, err |-> "",
             md |-> WriteThrough(g.md, g.ref[1],
                       IF value = None
                       THEN DelItem(g.value[1], key)
                       ELSE SetItem(g.value[1], key, value[1]))]

\* What the metadata getter of each survey returns in a given state
MetadataViews(m) == [s \in Surveys |-> base_metadata(m, s).value]

\* The workspace holds metadata for a survey whose _metadata is not set (a
\* survey of a file that is opened)
LoadSurvey(s, d) ==
    /\ md.store[s] = None /\ md.ref[s] = None
    /\ md' = [md EXCEPT !.store[s] = Some(d)]
    /\ last' = [op |-> "load", who |-> s, ok |-> TRUE]
    /\ UNCHANGED <<treeVars, dataVars, geoVars, fileVars, copyVars, em, prev>>

\* survey.metadata is read; the record of the call keeps what the store and
\* the class held when the call was made
GetMetadata(s) ==
    \E g \in {base_metadata(md, s)} :
       /\ md' = g.md
       /\ last' = [op |-> "metadata.get", who |-> s, ok |-> TRUE,
                   result |-> g.value, stored |-> md.store[s],
                   default |-> md.class]
       /\ UNCHANGED <<treeVars, dataVars, geoVars, fileVars, copyVars, em, prev>>

\* survey.edit_metadata({key: value}); the record of the call keeps what the
\* getter of each survey returned before the call
EditSurveyMetadata(s, key, value) ==
    \E r \in {base_edit_metadata(md, s, key, value)} :
       /\ md' = r.md
       /\ last' = [op |-> "metadata.edit", who |-> s, ok |-> r.ok,
                   err |-> r.err, key |-> key, value |-> value,
                   views |-> MetadataViews(md)]
       /\ UNCHANGED <<treeVars, dataVars, geoVars, fileVars, copyVars, em, prev>>

\* Two surveys are created: _metadata is not set, the workspace holds no
\* metadata for them
InitMetadata ==
    md = [class |-> ClassMetadata,
          store |-> [s \in Surveys |-> None],
          ref |-> [s \in Surveys |-> None]]

\* Reads and edits of the metadata of two unpaired surveys, each of which
\* may be one the workspace holds metadata for
NextMetadata ==
    \/ \E s \in Surveys, d \in StoredDicts : LoadSurvey(s, d)
    \/ \E s \in Surveys : GetMetadata(s)
    \/ \E s \in Surveys, key \in MetaKeys,
          value \in {None} \cup {Some(v) : v \in MetaValues} :
          EditSurveyMetadata(s, key, value)

\* Creations with any name and any uid argument, and renamings
NextEntity ==
    \/ \E name \in Names, uid \in UidArgs, generated \in Uuid4Values :
          CreateEntity(name, uid, generated)
    \/ \E i \in 1..Len(entities), new_name \in Names : SetName(i, new_name)

\* Creations with a generated uid and set_parent calls.  Uids are only ever
\* compared for equality, so one draw of uuid4 stands for all of them.
NextTree ==
    \/ \E name \in Names :
          /\ Uuid4Values # {}
          /\ CreateEntity(name, [kind |-> "none"],
                          CHOOSE u \in Uuid4Values : \A v \in Uuid4Values : u <= v)
    \/ \E i \in 1..Len(entities), p \in ParentArgs : SetParent(i, p)

\* The calls on a Data entity
NextData ==
    \/ ReadValues
    \/ \E arr \in Arrays : SetValues(arr)
    \/ \E value \in AssociationArgs : SetAssociation(value)
    \/ \E data_type \in DataTypes : SetEntityType(data_type)
    \/ ClearCache

\* The calls on a GeoImage, and the entity type setter of a Data entity
NextImage ==
    \/ ReadCells
    \/ \E indices \in CellsArgs : SetCells(indices)
    \/ ReadVertices
    \/ \E xyz \in XyzArgs : SetVertices(xyz)
    \/ \E value \in ImageArgs : SetImage(value)
    \/ \E size \in Sizes : CopyImageDataIn(size)
    \/ SaveGeoImage
    \/ ClearGeoImageCache
    \/ \E data_type \in DataTypes : SetEntityType(data_type)

\* The image of a GeoImage and its georeferencing: assignments of the
\* image, the image data of another GeoImage copied in, georeference, and
\* reads of the vertices
NextGeoreference ==
    \/ \E value \in ImageArgs : SetImage(value)
    \/ \E reference \in RefArgs, locations \in LocArgs :
          Georeference(reference, locations)
    \/ \E size \in Sizes : CopyImageDataIn(size)
    \/ ReadVertices

\* Creations, renamings, save_to_h5 and finalize.  A creation is given no
\* uid, the nil uid or the uid of a live entity; uids are only ever compared
\* for equality, so one draw of uuid4 stands for every fresh uid.
NextWorkspace ==
    \/ \E name \in Names, uid \in UidArgs :
          /\ Uuid4Values # {}
          /\ uid.kind = "uuid" => uid.uid \in UsedUids \cup {NilUid}
          /\ CreateEntity(name, uid,
                          CHOOSE u \in Uuid4Values : \A v \in Uuid4Values : u <= v)
    \/ \E i \in 1..Len(entities), new_name \in Names : SetName(i, new_name)
    \/ \E i \in 1..Len(entities) : SaveToH5(i)
    \/ Finalize

\* An object is given vertices and cells and saved, a Data is given an
\* association and values, and a second workspace is opened on the file
NextRoundTrip ==
    \/ /\ h5.rec = None
       /\ \/ \E xyz \in XyzArgs : SetVertices(xyz)
          \/ \E indices \in CellsArgs : SetCells(indices)
          \/ SaveGeoImage
          \/ \E value \in AssociationArgs : SetAssociation(value)
          \/ \E arr \in Arrays : SetValues(arr)
    \/ Reopen

\* A receivers/transmitters pair is created and one of the two is copied
NextCopy ==
    \/ /\ gt = None
       /\ \E rxa \in RxArgs, txa \in TxArgs, paired \in BOOLEAN :
             /\ paired \/ txa.ids = None
             /\ CreatePair(rxa, txa, paired)
    \/ \E who \in {"rx", "tx"} :
          /\ gt # None
          /\ \E mask \in MaskArgs(NVerts(gt[1][who])) : Copy(who, mask)

\* The calls on a survey
NextSurvey ==
    \/ \E arg \in DataArgs(em) : AddComponentData(arg)
    \/ \E entries \in EntryArgs(em) : EditMetadata(entries)
    \/ \E values \in {Floats(n) : n \in 0..MaxChannels} \cup {Str("1.0")} :
          SetChannels(values)
    \/ \E value \in {"Milliseconds (ms)", "Hours"} : SetUnit(value)
    \/ \E value \in {"Tx and Rx", "Rx"} : SetInputType(value)
    \/ \E value \in {"ndarray", "none", "str"} : SetTxIdProperty(value)
    \/ SetComplement

Init ==
    /\ InitTree /\ InitData /\ InitGeoImage /\ InitCalls
    /\ InitFile /\ InitSurvey /\ InitCopy /\ InitMetadata

SpecEntity == Init /\ [][NextEntity]_vars

SpecTree == Init /\ [][NextTree]_vars

SpecData == Init /\ [][NextData]_vars

SpecImage == Init /\ [][NextImage]_vars

SpecGeoreference == Init /\ [][NextGeoreference]_vars

SpecWorkspace == Init /\ [][NextWorkspace]_vars

SpecRoundTrip == Init /\ [][NextRoundTrip]_vars

SpecCopy == Init /\ [][NextCopy]_vars

SpecSurvey == Init /\ [][NextSurvey]_vars

SpecMetadata == Init /\ [][NextMetadata]_vars

Uid(i) == entities[i].uid

Live == 1..Len(entities)

(***************************************************************************)
(* C1: tree symmetry.  For all entities e and p, e.uid is in               *)
(* tree[p.uid].children if and only if tree[e.uid].parent is p.uid.        *)
(***************************************************************************)
C1_TreeSymmetry ==
    \A e \in Live, p \in Live :
        InSeq(Uid(e), tree[Uid(p)].children) <=> tree[Uid(e)].parent = Uid(p)

(***************************************************************************)
(* C2: re-parenting removes the old link.  After a set_parent call that    *)
(* moved e from p1 to another parent, e.uid is not in tree[p1].children,   *)
(* and every entity other than the root is in the children list of        *)
(* exactly one entity.                                                     *)
(***************************************************************************)
C2_OldLinkRemoved ==
    /\ (last.op = "set_parent" /\ last.ok
          /\ last.old # tree[Uid(last.self)].parent
          /\ last.old \in DOMAIN tree)
        => ~InSeq(Uid(last.self), tree[last.old].children)
    /\ \A e \in Live \ {Root} :
          Cardinality({p \in Live : InSeq(Uid(e), tree[Uid(p)].children)}) = 1

\* The uid the claim expects set_parent to resolve its argument to
C3_Expected(parent) ==
    CASE parent.kind = "uuid" -> parent.uid
      [] parent.kind = "entity" -> Uid(parent.idx)
      [] OTHER -> Uid(Root)

C4_State ==
    /\ \A e \in Live : Uid(e) # NilUid
    /\ (last.op = "create" /\ last.uid.kind = "uuid" /\ last.uid.uid = NilUid)
        => (~last.ok /\ Len(entities) = last.count)
    /\ (last.op = "create" /\ last.ok)
        => /\ Len(entities) = last.count + 1
           /\ last.uid.kind = "uuid" => Uid(Len(entities)) = last.uid.uid
           /\ last.uid.kind = "none" => Uid(Len(entities)) \in UIDs \ {NilUid}

C4_Step ==
    \A e \in Live : e <= Len(entities') /\ entities'[e].uid = entities[e].uid

(***************************************************************************)
(* C4: every entity has a non-zero uid.  A constructor call with the nil   *)
(* uid fails and creates nothing, a supplied non-zero uid is kept, a       *)
(* generated uid is non-zero, and no step changes the uid of an entity.    *)
(***************************************************************************)
C4_UidNonZero == [] C4_State /\ [][C4_Step]_vars

\* A constructor call with the nil uid was refused
C4_Witness ==
    /\ last.op = "create" /\ ~last.ok
    /\ last.uid.kind = "uuid" /\ last.uid.uid = NilUid
    /\ last.err = "AssertionError"

(***************************************************************************)
(* C5: identity uniqueness.  Two distinct entities of the workspace carry  *)
(* different uids, and a creation with a uid that a live entity carries is *)
(* rejected and creates nothing.                                           *)
(***************************************************************************)
C5_UniqueUids ==
    /\ \A e1 \in Live, e2 \in Live : e1 # e2 => Uid(e1) # Uid(e2)
    /\ (last.op = "create" /\ last.uid.kind = "uuid" /\ last.uid.uid \in last.used)
        => (~last.ok /\ Len(entities) = last.count)

\* A creation with the uid of a live entity was rejected
C5_Witness ==
    /\ last.op = "create" /\ ~last.ok
    /\ last.uid.kind = "uuid" /\ last.uid.uid \in last.used
    /\ last.err = "DuplicateUUID"
    /\ Len(entities) >= 2

(***************************************************************************)
(* C6: the values getter of Data is lazy.  A cached value is returned;     *)
(* with an empty cache and on_file true the value is fetched from the      *)
(* store, cached and returned; otherwise the result is null.  A Data that  *)
(* is on file with an empty cache does not return null while the store     *)
(* holds its values.                                                       *)
(***************************************************************************)
C6_LazyValues ==
    last.op = "values.get" =>
        LET b == last.before
        IN /\ b.values # None => last.result = b.values
           /\ (b.values = None /\ b.on_file)
              => (last.result = b.store /\ data.values = b.store)
           /\ (b.values = None /\ ~b.on_file) => last.result = None
           /\ (b.values = None /\ b.on_file /\ b.store # None)
              => last.result # None

\* The calls a read may make on the workspace's store
StoreCalls(trace) ==
    {k \in 1..Len(trace) :
        trace[k] \in {"fetch_array_attribute:vertices", "fetch_array_attribute:cells",
                      "fetch_array_attribute:values", "update_attribute:vertices",
                      "update_attribute:cells", "update_attribute:values"}}

(***************************************************************************)
(* C7: lazy fetch idempotence.  The second of two consecutive reads of     *)
(* Data.values, GeoImage.vertices or GeoImage.cells returns the value the  *)
(* first returned and calls neither fetch_array_attribute nor              *)
(* update_attribute.                                                       *)
(***************************************************************************)
C7_LazyFetchOnce ==
    (last.op \in {"values.get", "vertices.get", "cells.get"} /\ prev.op = last.op)
    => (last.result = prev.result /\ StoreCalls(last.trace) = {})

\* The fetch_array_attribute calls of a read
FetchCalls(trace) ==
    {k \in 1..Len(trace) :
        trace[k] \in {"fetch_array_attribute:vertices", "fetch_array_attribute:cells",
                      "fetch_array_attribute:values"}}

(***************************************************************************)
(* C7, amended: the second of two consecutive reads returns the value the  *)
(* first returned and makes no update_attribute call; it makes no          *)
(* fetch_array_attribute call either unless the first read returned None.  *)
(***************************************************************************)
C7_LazyFetchOnceCached ==
    (last.op \in {"values.get", "vertices.get", "cells.get"} /\ prev.op = last.op)
    => /\ last.result = prev.result
       /\ StoreCalls(last.trace) \subseteq FetchCalls(last.trace)
       /\ prev.result # None => StoreCalls(last.trace) = {}

\* The cells of a GeoImage that is on file are read twice; the store holds
\* them and the second read found them cached
C7_Witness ==
    /\ last.op = "cells.get" /\ prev.op = "cells.get"
    /\ geo.on_file
    /\ last.result # None
    /\ last.result = geo_store.cells
    /\ last.trace = <<>>

\* n_values as the claim tabulates it
C8_Expected ==
    CASE data.association = Some("VERTEX") -> Some(data_parent.n_vertices)
      [] data.association = Some("CELL") -> Some(data_parent.n_cells)
      [] data.association = Some("FACE") -> Some(data_parent.n_faces)
      [] data.association = Some("OBJECT") -> Some(1)
      [] data.association = None -> None

(***************************************************************************)
(* C8: values length matches the association.  n_values is the vertex,     *)
(* cell or face count of the parent, 1 for OBJECT and None without         *)
(* association; a Data that has values and a non-None n_values has         *)
(* len(values) = n_values; setting values of another length raises and     *)
(* leaves the previous values in place.                                    *)
(***************************************************************************)
C8_ValuesLength ==
    /\ n_values(data) = C8_Expected
    /\ (data.values # None /\ C8_Expected # None)
       => Len(data.values[1]) = C8_Expected[1]
    /\ (last.op = "values.set" /\ C8_Expected # None
          /\ Len(last.arg) # C8_Expected[1])
       => (~last.ok /\ data.values = last.before)

(***************************************************************************)
(* C9: changing the association invalidates the cached values.  The read   *)
(* that follows an assignment of a different association does not return   *)
(* cached values whose length disagrees with the new n_values.             *)
(***************************************************************************)
C9_AssociationInvalidates ==
    (prev.op = "association.set" /\ prev.changed
       /\ last.op = "values.get" /\ last.result # None /\ n_values(data) # None)
    => Len(last.result[1]) = n_values(data)[1]

(***************************************************************************)
(* C10: every successful assignment to Data.entity_type, GeoImage.cells or *)
(* GeoImage.vertices writes the field and then makes exactly one           *)
(* update_attribute call for that attribute; a rejected assignment makes   *)
(* no update_attribute call and leaves the field as it was.                *)
(***************************************************************************)
C10_SettersNotify ==
    /\ last.op = "entity_type.set"
       => /\ last.ok
          /\ last.trace = <<"set:entity_type", "update_attribute:entity_type">>
          /\ data.entity_type = last.arg
          /\ store.entity_type = last.arg
    /\ last.op = "cells.set"
       => IF last.ok
          THEN /\ last.trace = <<"set:cells", "update_attribute:cells">>
               /\ geo.cells = Some(last.arg)
               /\ geo_store.cells = Some(last.arg)
          ELSE /\ last.trace = <<>>
               /\ geo.cells = last.before
    /\ last.op = "vertices.set"
       => IF last.ok
          THEN /\ last.trace = <<"set:vertices", "update_attribute:vertices">>
               /\ geo.vertices = Some(ToRecords(last.arg.rows))
               /\ geo_store.vertices = geo.vertices
          ELSE /\ last.trace = <<>>
               /\ geo.vertices = last.before

\* An assignment to cells was rejected while an array was cached
C10_Witness ==
    /\ last.op = "cells.set" /\ ~last.ok
    /\ last.before # None
    /\ geo.cells = last.before

(***************************************************************************)
(* C11: round trip through the store.  For an object created with vertices *)
(* and cells and a Data created with values, the entities a second         *)
(* workspace loads from the same file have the vertices, cells, values and *)
(* association of the originals.                                           *)
(***************************************************************************)
C11_RoundTrip ==
    h5.rec # None =>
        LET r == h5.rec[1]
        IN /\ vertices_getter(r.geo, r.geo_store, r.children).result
                = vertices_getter(r.orig_geo, r.geo_store, r.children).result
           /\ cells_getter(r.geo, r.geo_store).result
                = cells_getter(r.orig_geo, r.geo_store).result
           /\ values_getter(r.data) = values_getter(r.orig_data)
           /\ r.data.association = r.orig_data.association

C13_BadMask(self, mask) ==
    \/ mask.kind = "list"
    \/ mask.kind = "ndarray" /\ Len(mask.vals) # NVerts(self)

\* A copy call that raised and left the pair and the workspace as they were
C13_Rejected ==
    /\ ~last.ok
    /\ last.result.created = <<>>
    /\ last.result.new = None /\ last.result.newc = None
    /\ gt = Some([last.before EXCEPT !.called = TRUE])

C14_InRange(e) ==
    \A k \in 1..Len(e.cells[1]) :
        \A j \in 1..2 : e.cells[1][k][j] \in 0..(Len(e.vertices[1]) - 1)

(***************************************************************************)
(* C14: mask copy invariant.  A copy made with vertex mask M has sum(M)    *)
(* vertices, the selected ones; each of its cells is a source cell whose   *)
(* vertices are all selected, renumbered to the positions of those         *)
(* vertices in the copy, and every source cell with all vertices selected  *)
(* is in the copy; the cell indices of the copy and of the copied          *)
(* complement are in range; on a transmitter the cell mask applied to the  *)
(* tx ids is all(M[cells]) per cell, so the copy has one tx id per cell.   *)
(***************************************************************************)
C14_MaskCopy ==
    (/\ last.op = "copy"
     /\ last.mask.kind = "ndarray"
     /\ last.before[last.who].vertices # None
     /\ last.result.new # None)
        => LET self == last.before[last.who]
               M == last.mask.vals
               new == last.result.new[1]
               src == self.cells[1]
               all(k) == M[src[k][1] + 1] /\ M[src[k][2] + 1]
               vertex(e, i) == e.vertices[1][i + 1]
           IN /\ Len(new.vertices[1]) = Cardinality({k \in 1..Len(M) : M[k]})
              /\ \A i \in 1..Len(new.vertices[1]) : M[new.vertices[1][i]]
              /\ \A k \in 1..Len(new.cells[1]) :
                    \E c \in 1..Len(src) :
                        /\ all(c)
                        /\ \A j \in 1..2 :
                              vertex(new, new.cells[1][k][j]) = vertex(self, src[c][j])
              /\ Len(new.cells[1]) = Cardinality({c \in 1..Len(src) : all(c)})
              /\ C14_InRange(new)
              /\ last.result.newc # None => C14_InRange(last.result.newc[1])
              /\ (self.kind = "Transmitters" /\ last.result.cell_mask # None)
                    => /\ last.result.cell_mask[1] = [k \in 1..Len(src) |-> all(k)]
                       /\ Len(last.result.copied[1]) = Len(new.cells[1])

\* A transmitters entity of three vertices was copied with the mask
\* (False, True, True): the second cell survived as (0, 1), the derived cell
\* mask is (False, True), and the receivers were copied along
C14_Witness ==
    /\ last.op = "copy" /\ last.who = "tx"
    /\ last.mask = [kind |-> "ndarray", vals |-> <<FALSE, TRUE, TRUE>>]
    /\ last.result.new # None
    /\ last.result.new[1].cells = Some(<<<<0, 1>>>>)
    /\ last.result.cell_mask = Some(<<FALSE, TRUE>>)
    /\ last.result.newc # None

(***************************************************************************)
(* C15: paired TX renumbering.  For a receivers/transmitters pair with tx  *)
(* ids and any mask, copy completes, and the tx ids of the copy and of the *)
(* copied complement are renumbered so that the k loop ids both sides      *)
(* share become 1..k in increasing order of the original id, and 0 is kept *)
(* for "Unknown": an id of 0 stays 0 and no shared loop id becomes 0.      *)
(***************************************************************************)
C15_PairedRenumbering ==
    (/\ last.op = "copy"
     /\ ~C13_BadMask(last.before[last.who], last.mask)
     /\ last.before.paired
     /\ last.before.rx.tx_id # None
     /\ last.before.tx.tx_id # None)
        => /\ last.ok
           /\ last.result.renumbered =>
                 LET a == last.result.copied[1]
                     b == last.result.ccopied[1]
                     shared == (SetOf(a) \cap SetOf(b)) \ {0}
                     expected(v) == IF v \in shared
                                    THEN 1 + Cardinality({x \in shared : x < v})
                                    ELSE 0
                 IN /\ last.result.new[1].tx_id
                         = Some([i \in 1..Len(a) |-> expected(a[i])])
                    /\ last.result.newc[1].tx_id
                         = Some([i \in 1..Len(b) |-> expected(b[i])])

(***************************************************************************)
(* C16: add_component_data called on a survey whose channels are unset or  *)
(* empty raises an error before looking at its argument (the same error    *)
(* whether or not the argument is a dictionary), and creates no Data, no   *)
(* PropertyGroup and no metadata change.  add_component_data never changes *)
(* the channels, so the channels after the call are those before it.       *)
(***************************************************************************)
C16_ChannelsUnset == em.meta.Channels \in {None, Some(0)}

C16_MissingChannels ==
    (last.op = "add_component_data" /\ C16_ChannelsUnset)
        => /\ ~last.ok
           /\ \/ last.err = "AttributeError" /\ last.line = 87
              \/ last.err = "KeyError" /\ last.line = 152
           /\ last.created = 0
           /\ ~last.changed
           /\ last.ret = <<>>
           /\ last.finalize = 0

\* add_component_data was given something that is not a dictionary on a
\* survey whose list of channels is empty, and raised AttributeError
C16_Witness ==
    /\ last.op = "add_component_data"
    /\ last.arg = "other"
    /\ em.meta.Channels = Some(0)
    /\ last.err = "AttributeError"

(***************************************************************************)
(* C17: property group names are added at most once.  No two property      *)
(* groups of a survey share a name and no name occurs twice in             *)
(* metadata["EM Dataset"]["Property groups"]; a successful                 *)
(* add_component_data leaves, for each component, exactly one group of     *)
(* that name, holding one property per channel; and add_component_data     *)
(* with a component named after a group the survey already has raises.     *)
(***************************************************************************)
C17_GroupNamesOnce ==
    /\ \A i, j \in 1..Len(em.groups) :
          i # j => em.groups[i].name # em.groups[j].name
    /\ \A i, j \in 1..Len(em.meta.Groups) :
          i # j => em.meta.Groups[i] # em.meta.Groups[j]
    /\ (last.op = "add_component_data" /\ last.ok)
          => \A k \in 1..Len(last.ret) :
                /\ Cardinality({i \in 1..Len(em.groups) :
                                   em.groups[i].name = last.ret[k]}) = 1
                /\ GroupNamed(em, last.ret[k]).n = em.meta.Channels[1]
    /\ (last.op = "add_component_data" /\ last.dup) => ~last.ok

\* add_component_data was called with the name of a group the survey has,
\* and raised the ValueError of line 99
C17_Witness ==
    /\ last.op = "add_component_data"
    /\ last.dup
    /\ last.err = "ValueError" /\ last.line = 99
    /\ Len(em.groups) = 1
    /\ em.meta.Groups = <<em.groups[1].name>>

(***************************************************************************)
(* C18: a failing add_component_data leaves the object graph unchanged.    *)
(* When the call raises for any component of its input, the survey has the *)
(* same children (no Data was created), the same property groups and the   *)
(* same metadata as before the call, also when an earlier component of the *)
(* input, or an earlier channel of the component, was valid.               *)
(***************************************************************************)
C18_FailureLeavesNoTrace ==
    (last.op = "add_component_data" /\ ~last.ok)
        => ~last.changed /\ last.created = 0

(***************************************************************************)
(* C19: a successful add_component_data returns one PropertyGroup per      *)
(* component of its input, in input order; the name of each group is in    *)
(* metadata["EM Dataset"]["Property groups"], the paired entity, when      *)
(* there is one, has the same metadata, and workspace.finalize() was       *)
(* called once, after all components.                                      *)
(***************************************************************************)
C19_SuccessfulAdd ==
    (last.op = "add_component_data" /\ last.ok)
        => /\ last.ret = last.names
           /\ \A k \in 1..Len(last.ret) : last.ret[k] \in SetOf(em.meta.Groups)
           /\ em.complement # None => em.complement = Some(em.meta)
           /\ last.finalize = 1

\* Two components were added to a paired survey: the groups are returned
\* in the order of the input
C19_Witness ==
    /\ last.op = "add_component_data" /\ last.ok
    /\ last.names = <<"B", "A">>
    /\ last.ret = <<"B", "A">>
    /\ em.complement # None

C21_GeoreferenceRejected ==
    last.op = "georeference"
        => /\ image(children) = None
                 => ~last.ok /\ last.result = "AttributeError"
           /\ ~last.ok
                 => /\ geo.vertices = last.before.vertices
                    /\ geo_store = last.before.store
                    /\ last.trace = <<>>

\* georeference was called without an image and with a reference of one
\* dimension, and raised the missing-image error
C21_Witness ==
    /\ last.op = "georeference"
    /\ image(children) = None
    /\ last.arg.reference = <<2>>
    /\ last.result = "AttributeError"

(***************************************************************************)
(* C22: BaseGroundTEM.copy does not modify its source.  After a copy, with *)
(* or without a mask, the metadata of the source survey (its "Receivers",  *)
(* "Transmitters" and "Tx ID property" entries), its tx ids and value map, *)
(* its vertices and its cells are as before the call, and so are those of  *)
(* the complement of the source.                                           *)
(***************************************************************************)
C22_SourceUnchanged ==
    last.op = "copy"
        => /\ gt[1].rx = last.before.rx
           /\ gt[1].tx = last.before.tx

(***************************************************************************)
(* C23: renumbering keeps loop labels attached to their loops.  Once       *)
(* BaseGroundTEM.copy has renumbered tx ids, every new id carries, in the  *)
(* value map of the copy that uses it, the label the value map of the      *)
(* source gave the loop it stands for (new id 0 is "Unknown"), and the     *)
(* copied entity and its copied complement use the same id for the same    *)
(* original loop.  Ids were renumbered when the call completed the         *)
(* renumbering, or when the ids of a copy are no longer the original ones. *)
(***************************************************************************)
C23_LabelsFollowLoops ==
    (/\ last.op = "copy"
     /\ last.result.newc # None
     /\ last.result.ccopied # None)
        => LET new == last.result.new[1]
               newc == last.result.newc[1]
               a == last.result.copied[1]
               b == last.result.ccopied[1]
               na == new.tx_id[1]
               nb == newc.tx_id[1]
               other == IF last.who = "rx" THEN "tx" ELSE "rx"
               label(v) == last.before[last.who].vmap[1][v]
               clabel(v) == last.before[other].vmap[1][v]
           IN (last.result.renumbered \/ na # a \/ nb # b)
                 => /\ \A k \in 1..Len(a) :
                          /\ na[k] \in DOMAIN new.vmap[1]
                          /\ new.vmap[1][na[k]] = label(a[k])
                    /\ \A k \in 1..Len(b) :
                          /\ nb[k] \in DOMAIN newc.vmap[1]
                          /\ newc.vmap[1][nb[k]] = clabel(b[k])
                    /\ \A i \in 1..Len(a), j \in 1..Len(b) :
                          a[i] = b[j] => na[i] = nb[j]
                    /\ 0 \in DOMAIN new.vmap[1] => new.vmap[1][0] = 0

(***************************************************************************)
(* C27: empty intersection.  When the tx ids that survive the mask on the  *)
(* copied entity share no value with the tx ids of the complement,         *)
(* BaseGroundTEM.copy completes without error and copies no paired ID      *)
(* property: no complement copy carrying a tx_id_property is created, and  *)
(* the tx ids of the copied entity are not renumbered.                     *)
(***************************************************************************)
C27_EmptyIntersection ==
    LET other == IF last.who = "rx" THEN "tx" ELSE "rx"
    IN (/\ last.op = "copy"
        /\ ~C13_BadMask(last.before[last.who], last.mask)
        /\ last.before.paired
        /\ last.result.copied # None
        /\ last.before[other].tx_id # None
        /\ SetOf(last.result.copied[1])
               \cap SetOf(last.before[other].tx_id[1]) = {})
           => /\ last.ok
              /\ last.result.newc # None => last.result.newc[1].tx_id = None
              /\ ~last.result.renumbered
              /\ last.result.new[1].tx_id = last.result.copied

(***************************************************************************)
(* C24: channel binding invariant.  In every state reached by channels     *)
(* assignments, add_component_data calls and edit_metadata calls, every    *)
(* name listed in metadata['EM Dataset']['Property groups'] names an       *)
(* existing property group of the survey, and the number of properties of  *)
(* that group equals len(channels).                                        *)
(***************************************************************************)
C24_ChannelBinding ==
    \A k \in 1..Len(em.meta.Groups) :
       /\ em.meta.Groups[k] \in GroupNames(em)
       /\ em.meta.Channels # None
       /\ GroupNamed(em, em.meta.Groups[k]).n = em.meta.Channels[1]

(***************************************************************************)
(* C25: a GeoImage holds at most one image.  After any sequence of image   *)
(* assignments the GeoImage has at most one FilenameData child named       *)
(* "GeoImageMesh_Image": a previous one is removed before the new one is   *)
(* added.  Each successful assignment resets the vertices to the default   *)
(* corners of the new image, and an assignment rejected as invalid input   *)
(* leaves the existing image child and the vertices unchanged.             *)
(***************************************************************************)
C25_AtMostOneImage ==
    [][LET images(ch) == SelectSeq(ch, LAMBDA c : c.kind = "FilenameData"
                                                  /\ c.name = "GeoImageMesh_Image")
       IN /\ Len(images(children')) <= 1
          /\ (last'.op = "image.set" /\ last'.ok)
                => /\ Len(images(children')) = 1
                   /\ Len(children') = Len(children) + 1 - Len(images(children))
                   /\ images(children')[1].values.size = last'.arg.size
                   /\ geo'.vertices = Some(ToRecords(Corners(last'.arg.size)))
          /\ (last'.op = "image.set" /\ ~last'.ok)
                => /\ children' = children
                   /\ geo'.vertices = geo.vertices]_vars

\* An image was assigned to a GeoImage that held an image of another size
C25_Witness ==
    /\ last.op = "image.set" /\ last.ok
    /\ last.before # None
    /\ last.before # geo.vertices
    /\ Len(children) = 1
    /\ geo.vertices = Some(ToRecords(Corners(children[1].values.size)))

(***************************************************************************)
(* C26: the metadata getter of BaseEMSurvey returns the metadata held by   *)
(* the store when the workspace has metadata for the uid of the survey,    *)
(* and the default metadata only when the store has none; in both cases    *)
(* it returns a dictionary with an 'EM Dataset' entry.  The dictionary of  *)
(* one survey is not shared with another survey: editing the metadata of   *)
(* one survey never changes the metadata of an unpaired survey.            *)
(***************************************************************************)
C26_MetadataGetter ==
    /\ last.op = "metadata.get"
          => /\ last.result # None
             /\ last.stored # None => last.result = last.stored
             /\ last.stored = None => last.result = Some(last.default)
    /\ \A s, t \in Surveys :
          (s # t /\ md.ref[s] # None) => md.ref[s] # md.ref[t]
    /\ last.op = "metadata.edit"
          => \A t \in Surveys \ {last.who} :
                MetadataViews(md)[t] = last.views[t]

====
